---- MODULE Spec2Model ----
(***************************************************************************)
(* Azure Learning course scraper (azure_course_scraper.py): the link       *)
(* parsers, the unit ordering, the image classification and the crawl of   *)
(* scrape_course / main, as state machines; and the quiz of quiz.py with   *)
(* its saved progress.                                                     *)
(*                                                                         *)
(* Python str values are TLA+ strings, read character by character with    *)
(* SubSeq; Python dicts are functions over their keys (a missing key is a  *)
(* key outside DOMAIN; {} is the empty function <<>>); Python lists are    *)
(* sequences.                                                              *)
(***************************************************************************)
EXTENDS Integers, Sequences, FiniteSets, TLC

VARIABLES
    args,           \* the arguments of the parser / classifier call under study
    ret,            \* the value that call returned
    called,         \* TRUE once the call has been made
    pc,             \* where main / scrape_course stands
    run,            \* how many times main has been started
    cfg,            \* the command line of the current run (the scraper's limits and flags)
    course_data,    \* scrape_course's course_data: the tree being built
    existing_data,  \* scrape_course's existing_data: "None", or "course_data" when it
                    \* is the object course_data is bound to (line 425)
    path_idx,       \* position in paths_to_process
    module_idx,     \* position in modules_to_process
    unit_idx,       \* position in units_to_process
    returned,       \* what scrape_course returned to main
    exc,            \* the exception that escaped scrape_course, "" when none
    disk,           \* the files of the output directory, by name
    written,        \* main has written its output files in the current run
    log,            \* the fetches and pauses of the current run, in order
    failures,       \* failed fetches so far
    clock,          \* the readings of datetime.now() so far
    quiz,           \* quiz.py: the local variables of the running run_quiz
    progress_file,  \* quiz.py: what quiz_progress.json holds, <<>> when absent
    asked           \* quiz.py: the questions shown since the quiz at hand began

pureVars == <<args, ret, called>>

crawlVars == <<pc, run, cfg, course_data, existing_data, path_idx, module_idx,
               unit_idx, returned, exc, disk, written, log, failures, clock>>

quizVars == <<quiz, progress_file, asked>>

vars == <<args, ret, called, pc, run, cfg, course_data, existing_data, path_idx,
          module_idx, unit_idx, returned, exc, disk, written, log, failures, clock,
          quiz, progress_file, asked>>

----------------------------------------------------------------------------
(* Python str operations *)

\* s[i], 1-based; "" where s has no such position
Char(s, i) == IF 1 <= i /\ i <= Len(s) THEN SubSeq(s, i, i) ELSE ""

StartsWith(s, p) == Len(s) >= Len(p) /\ SubSeq(s, 1, Len(p)) = p

EndsWith(s, p) == Len(s) >= Len(p) /\ SubSeq(s, Len(s) - Len(p) + 1, Len(s)) = p

\* p in s
Contains(s, p) ==
    \E i \in 1..(Len(s) - Len(p) + 1) : SubSeq(s, i, i + Len(p) - 1) = p

UpperLetters == "ABCDEFGHIJKLMNOPQRSTUVWXYZ"
LowerLetters == "abcdefghijklmnopqrstuvwxyz"
Digits == "0123456789"

IsUpper(c) == Len(c) = 1 /\ Contains(UpperLetters, c)
IsLower(c) == Len(c) = 1 /\ Contains(LowerLetters, c)
IsDigit(c) == Len(c) = 1 /\ Contains(Digits, c)

\* 1-based position of the character c in the alphabet abc
IndexOf(abc, c) == CHOOSE i \in 1..Len(abc) : Char(abc, i) = c

LowerChar(c) == IF IsUpper(c) THEN Char(LowerLetters, IndexOf(UpperLetters, c)) ELSE c
UpperChar(c) == IF IsLower(c) THEN Char(UpperLetters, IndexOf(LowerLetters, c)) ELSE c

RECURSIVE Lower(_)
\* s.lower()
Lower(s) ==
    IF s = "" THEN "" ELSE LowerChar(Char(s, 1)) \o Lower(SubSeq(s, 2, Len(s)))

\* length of the longest run of digits of s that starts at position i
RECURSIVE DigitRunLen(_, _)
DigitRunLen(s, i) ==
    IF i <= Len(s) /\ IsDigit(Char(s, i)) THEN 1 + DigitRunLen(s, i + 1) ELSE 0

\* int(d) of a string of decimal digits
RECURSIVE ParseInt(_)
ParseInt(d) ==
    IF d = "" THEN 0
    ELSE 10 * ParseInt(SubSeq(d, 1, Len(d) - 1))
         + (IndexOf(Digits, Char(d, Len(d))) - 1)

\* the characters the regex class \s accepts
Whitespace == {" ", "\t", "\n", "\r", "\f"}

Min(S) == CHOOSE x \in S : \A y \in S : x <= y

\* no run of run_quiz, and no progress file
QuizIdle ==
    /\ quiz = [pc |-> "idle"]
    /\ progress_file = <<>>
    /\ asked = <<>>

\* no run of main: the state of the crawl while a single function is studied
CrawlIdle ==
    /\ pc = "idle"
    /\ run = 0
    /\ cfg = <<>>
    /\ course_data = <<>>
    /\ existing_data = "None"
    /\ path_idx = 0
    /\ module_idx = 0
    /\ unit_idx = 0
    /\ returned = <<>>
    /\ exc = ""
    /\ disk = <<>>
    /\ written = FALSE
    /\ log = <<>>
    /\ failures = 0
    /\ clock = 0

----------------------------------------------------------------------------
(* extract_unit_number *)

\* the regex /(\d+)- matches at position i of s: \d+ is greedy, and a shorter
\* run of digits is followed by a digit, never by "-"
UrlMatchAt(s, i) ==
    /\ Char(s, i) = "/"
    /\ DigitRunLen(s, i + 1) >= 1
    /\ Char(s, i + 1 + DigitRunLen(s, i + 1)) = "-"

\* re.search(r'/(\d+)-', unit_url): the positions where it matches
UrlMatches(s) == {i \in 1..Len(s) : UrlMatchAt(s, i)}

\* re.search(r'^(\d+)[\.\s]', unit_title)
TitleMatch(t) ==
    /\ DigitRunLen(t, 1) >= 1
    /\ Char(t, 1 + DigitRunLen(t, 1)) \in ({"."} \cup Whitespace)

\* the dict unit_order, in its insertion (= iteration) order
unit_order ==
    << <<"introduction", 1>>,
       <<"summary", 999>>,
       <<"assessment", 998>>,
       <<"knowledge-check", 998>>,
       <<"exercise", 900>> >>

\* for key, order in unit_order.items(): if key in unit_lower: return order
\* return 500
RECURSIVE OrderFrom(_, _)
OrderFrom(unit_lower, k) ==
    IF k > Len(unit_order) THEN 500
    ELSE IF Contains(unit_lower, unit_order[k][1]) THEN unit_order[k][2]
    ELSE OrderFrom(unit_lower, k + 1)

\* a slip that tries the title before the URL
extract_unit_number_TitleFirst(unit_url, unit_title) ==
    IF TitleMatch(unit_title)
    THEN ParseInt(SubSeq(unit_title, 1, DigitRunLen(unit_title, 1)))
    ELSE IF UrlMatches(unit_url) # {}
    THEN LET i == Min(UrlMatches(unit_url))
         IN ParseInt(SubSeq(unit_url, i + 1, i + DigitRunLen(unit_url, i + 1)))
    ELSE OrderFrom(Lower(unit_title), 1)

extract_unit_number(unit_url, unit_title) ==
    IF UrlMatches(unit_url) # {}
    THEN LET i == Min(UrlMatches(unit_url))
         IN ParseInt(SubSeq(unit_url, i + 1, i + DigitRunLen(unit_url, i + 1)))
    ELSE IF TitleMatch(unit_title)
    THEN ParseInt(SubSeq(unit_title, 1, DigitRunLen(unit_title, 1)))
    ELSE OrderFrom(Lower(unit_title), 1)

----------------------------------------------------------------------------
(* The calls of extract_unit_number: every sample URL with every sample    *)
(* title.                                                                  *)

ModuleBase == "https://learn.microsoft.com/en-us/training/modules/intro-ml/"

UnitUrls ==
    { ModuleBase \o "1-introduction",
      ModuleBase \o "12-summary/",
      ModuleBase \o "knowledge-check",
      ModuleBase \o "exercise-deploy",
      ModuleBase \o "5",
      ModuleBase \o "x2-provision",
      ModuleBase \o "-3-provision",
      ModuleBase \o "unit/007-provision",
      "https://learn.microsoft.com/en-us/training/modules/3-steps/7-provision" }

UnitTitles ==
    { "Knowledge check",
      "knowledge-check",
      "Introduction",
      "1. Introduction",
      "2 Provision resources",
      "3",
      "3a Summary",
      "12.Summary",
      "7\tExercise",
      "Summary of the exercise",
      "Exercise - Introduction to storage",
      "Module assessment",
      "Provision resources",
      "" }

InitOrder ==
    /\ args \in [unit_url : UnitUrls, unit_title : UnitTitles]
    /\ ret = 0
    /\ called = FALSE
    /\ CrawlIdle
    /\ QuizIdle

ExtractUnitNumber ==
    /\ ~called
    /\ ret' = extract_unit_number(args.unit_url, args.unit_title)
    /\ called' = TRUE
    /\ UNCHANGED <<args, crawlVars, quizVars>>

NextOrder == ExtractUnitNumber

SpecOrder == InitOrder /\ [][NextOrder]_vars

\* what the claims say of a URL and a title, stated without the code's search:
\* the integers of the /<digits>- segments of url
UrlSegmentNumbers(url) ==
    { ParseInt(SubSeq(url, i + 1, j)) :
        <<i, j>> \in { p \in (1..Len(url)) \X (1..Len(url)) :
                         /\ p[1] < p[2]
                         /\ Char(url, p[1]) = "/"
                         /\ \A k \in (p[1] + 1)..p[2] : IsDigit(Char(url, k))
                         /\ Char(url, p[2] + 1) = "-" } }

\* the leading numbers of title: digits from its start, then "." or whitespace
TitleLeadingNumbers(title) ==
    { ParseInt(SubSeq(title, 1, j)) :
        j \in { q \in 1..Len(title) :
                  /\ \A k \in 1..q : IsDigit(Char(title, k))
                  /\ Char(title, q + 1) \in ({"."} \cup Whitespace) } }

\* the fallback-table values of the keywords the lower-cased title contains
KeywordOrders(title) ==
    { unit_order[k][2] :
        k \in { q \in 1..Len(unit_order) : Contains(Lower(title), unit_order[q][1]) } }

\* C6: a unit titled "Knowledge check", with no /<digits>- segment in its URL
\* and no leading number in its title, gets the order key 998.
C6_KnowledgeCheckIs998 ==
    (called /\ args.unit_title = "Knowledge check"
            /\ UrlSegmentNumbers(args.unit_url) = {})
        => ret = 998

\* C7: the order key is the integer of a /<digits>- segment of the URL if
\* there is one, whatever the title; else the leading number of the title if
\* it has one, whatever its keywords; else the table value of a keyword the
\* lower-cased title contains; else 500.
C7_OrderKeyPrecedence ==
    called =>
        IF UrlSegmentNumbers(args.unit_url) # {}
        THEN ret \in UrlSegmentNumbers(args.unit_url)
        ELSE IF TitleLeadingNumbers(args.unit_title) # {}
        THEN ret \in TitleLeadingNumbers(args.unit_title)
        ELSE IF KeywordOrders(args.unit_title) # {}
        THEN ret \in KeywordOrders(args.unit_title)
        ELSE ret = 500

\* C7's case: a URL with a numbered segment met a title with another leading
\* number and a keyword, and the URL's number was returned.
C7_Witness ==
    /\ called
    /\ args.unit_url = ModuleBase \o "12-summary/"
    /\ args.unit_title = "1. Introduction"
    /\ ret = 12

----------------------------------------------------------------------------
(* parse_module_page *)

\* str(n) of a natural number
RECURSIVE Str(_)
Str(n) ==
    IF n < 10 THEN Char(Digits, n + 1)
    ELSE Str(n \div 10) \o Char(Digits, (n % 10) + 1)

\* the positions of "/" in s
SlashPositions(s) == {i \in 1..Len(s) : Char(s, i) = "/"}

Max(S) == CHOOSE x \in S : \A y \in S : x >= y

\* where the path of an absolute URL starts: the first "/" after "://", or
\* 0 when the URL has no path
PathStart(u) ==
    LET start == Min({i \in 1..(Len(u) - 2) : SubSeq(u, i, i + 2) = "://"}) + 3
        later == {i \in SlashPositions(u) : i >= start}
    IN  IF later = {} THEN 0 ELSE Min(later)

\* scheme://host of an absolute URL
Origin(u) == IF PathStart(u) = 0 THEN u ELSE SubSeq(u, 1, PathStart(u) - 1)

\* urllib.parse.urljoin(base, href), for an absolute base and a href that is
\* empty, absolute, root-relative or a plain relative path (no "." or ".."
\* segment, no query, no fragment)
urljoin(base, href) ==
    IF href = "" THEN base
    ELSE IF Contains(href, "://") THEN href
    ELSE IF StartsWith(href, "/") THEN Origin(base) \o href
    ELSE IF PathStart(base) = 0 THEN base \o "/" \o href
    ELSE SubSeq(base, 1, Max(SlashPositions(base))) \o href

\* the keywords that mark a unit href
UnitKeywords == {"introduction", "summary", "assessment", "exercise"}

\* the condition of the if in the loop over all_links: Python reads
\* "a and b and c or d" as "(a and b and c) or d"
IsUnitLink(href, unit_title) ==
    \/ (href # "" /\ unit_title # "" /\ \E keyword \in UnitKeywords : Contains(href, keyword))
    \/ \E i \in 1..19 : StartsWith(href, Str(i) \o "-")

\* the list unit_links built by the loop over all_links
RECURSIVE UnitLinks(_, _)
UnitLinks(module_url, all_links) ==
    IF all_links = <<>> THEN <<>>
    ELSE LET link == all_links[Len(all_links)]
             rest == UnitLinks(module_url, SubSeq(all_links, 1, Len(all_links) - 1))
             unit_url == urljoin(module_url, link.href)
         IN  IF IsUnitLink(link.href, link.text)
             THEN Append(rest, [number |-> extract_unit_number(unit_url, link.text),
                                title |-> link.text,
                                url |-> unit_url,
                                href |-> link.href])
             ELSE rest

\* the loop "Remove duplicates": a unit is kept when no earlier one has its url
RECURSIVE RemoveDuplicates(_)
RemoveDuplicates(unit_links) ==
    IF unit_links = <<>> THEN <<>>
    ELSE LET unit == unit_links[Len(unit_links)]
             rest == SubSeq(unit_links, 1, Len(unit_links) - 1)
         IN  IF \E j \in 1..Len(rest) : rest[j].url = unit.url
             THEN RemoveDuplicates(rest)
             ELSE Append(RemoveDuplicates(rest), unit)

\* u put before every element whose number is >= its own: an unstable sort
InsertByNumber_TiesReversed(sorted, u) ==
    LET before == {i \in 1..Len(sorted) : sorted[i].number < u.number}
        n == IF before = {} THEN 0 ELSE Max(before)
    IN  SubSeq(sorted, 1, n) \o <<u>> \o SubSeq(sorted, n + 1, Len(sorted))

\* u put into the sorted list after every element whose number is <= its own
InsertByNumber(sorted, u) ==
    LET before == {i \in 1..Len(sorted) : sorted[i].number <= u.number}
        n == IF before = {} THEN 0 ELSE Max(before)
    IN  SubSeq(sorted, 1, n) \o <<u>> \o SubSeq(sorted, n + 1, Len(sorted))

\* list.sort(key=lambda x: x['number']): Python's sort is stable
RECURSIVE SortByNumber(_)
SortByNumber(units) ==
    IF units = <<>> THEN <<>>
    ELSE InsertByNumber(SortByNumber(SubSeq(units, 1, Len(units) - 1)),
                        units[Len(units)])

\* soup.find('h1') then get_text(strip=True): '' when the page has no h1
H1Title(html) == IF "h1" \in DOMAIN html THEN html.h1 ELSE ""

\* parse_module_page once fetch_page has returned the page html, a record of
\* the page's h1 text (when it has one) and its anchors with a href, in
\* document order, each with its href and its stripped text
parse_module_page(module_url, html) ==
    [url |-> module_url,
     title |-> H1Title(html),
     description |-> "",
     learning_objectives |-> <<>>,
     prerequisites |-> <<>>,
     units |-> SortByNumber(RemoveDuplicates(UnitLinks(module_url, html.links)))]

----------------------------------------------------------------------------
(* The calls of parse_module_page: every sequence of at most MaxLinks      *)
(* sample anchors, under each sample module URL.                           *)

MaxLinks == 3

NumberedModuleUrl == "https://learn.microsoft.com/en-us/training/modules/3-steps/"

ModuleUrls == {ModuleBase, NumberedModuleUrl}

UnitAnchors ==
    { [href |-> "2-provision", text |-> "Provision"],
      [href |-> "1-introduction", text |-> "Introduction"],
      [href |-> "3-summary", text |-> "Summary"],
      [href |-> "1-introduction", text |-> "Start here"],
      [href |-> "exercise-deploy", text |-> "Exercise"],
      [href |-> "summary", text |-> "Wrap up"],
      [href |-> "introduction-alt", text |-> "Overview"],
      [href |-> ModuleBase \o "2-provision", text |-> "Provision again"],
      [href |-> "/en-us/training/paths/intro/", text |-> "Back to the path"] }

SeqsUpTo(S, n) == UNION {[1..k -> S] : k \in 0..n}

InitModule ==
    /\ args \in [module_url : ModuleUrls,
                 html : [h1 : {"Module"}, links : SeqsUpTo(UnitAnchors, MaxLinks)]]
    /\ ret = <<>>
    /\ called = FALSE
    /\ CrawlIdle
    /\ QuizIdle

ParseModulePage ==
    /\ ~called
    /\ ret' = parse_module_page(args.module_url, args.html)
    /\ called' = TRUE
    /\ UNCHANGED <<args, crawlVars, quizVars>>

NextModule == ParseModulePage

SpecModule == InitModule /\ [][NextModule]_vars

\* the units discovered on the page of the call, in discovery order
Discovered == UnitLinks(args.module_url, args.html.links)

\* the positions of the sequence D that are the first with their url
FirstOfUrl(D) == {i \in 1..Len(D) : \A j \in 1..(i - 1) : D[j].url # D[i].url}

\* U is a permutation of the URL-deduplicated D, ascending in number, equal
\* numbers in the order they have in D
IsSortedStablePermutation(D, U) ==
    LET first == FirstOfUrl(D)
        pos == [k \in 1..Len(U) |->
                  IF \E i \in first : D[i] = U[k]
                  THEN CHOOSE i \in first : D[i] = U[k]
                  ELSE 0]
    IN  /\ Len(U) = Cardinality(first)
        /\ \A k \in 1..Len(U) : pos[k] # 0
        /\ \A i \in first : \E k \in 1..Len(U) : pos[k] = i
        /\ \A k, l \in 1..Len(U) :
              k < l => /\ U[k].number <= U[l].number
                       /\ (U[k].number = U[l].number => pos[k] < pos[l])

SortedStablePermutation == IsSortedStablePermutation(Discovered, ret.units)

\* the page's unit hrefs are exactly 2-provision, 1-introduction, 3-summary
ExampleHrefs ==
    {args.html.links[i].href : i \in 1..Len(args.html.links)}
        = {"2-provision", "1-introduction", "3-summary"}

ExampleInOrder ==
    [k \in 1..Len(ret.units) |-> ret.units[k].href]
        = <<"1-introduction", "2-provision", "3-summary">>

----------------------------------------------------------------------------
(* parse_learning_path *)

base_url == "https://learn.microsoft.com"

\* s.replace(old, new): every non-overlapping occurrence, left to right
RECURSIVE Replace(_, _, _)
Replace(s, old, new) ==
    IF Len(s) < Len(old) THEN s
    ELSE IF StartsWith(s, old)
    THEN new \o Replace(SubSeq(s, Len(old) + 1, Len(s)), old, new)
    ELSE Char(s, 1) \o Replace(SubSeq(s, 2, Len(s)), old, new)

\* the if / elif / else that makes a module href absolute, then the
\* trailing "/"
ModuleUrl(path_url, href) ==
    LET module_url ==
            IF StartsWith(href, "../../modules/")
            THEN Replace(href, "../../modules/", base_url \o "/en-us/training/modules/")
            ELSE IF StartsWith(href, "/modules/")
            THEN base_url \o "/en-us/training" \o href
            ELSE IF StartsWith(href, "/training/modules/")
            THEN base_url \o href
            ELSE urljoin(path_url, href)
    IN  IF EndsWith(module_url, "/") THEN module_url ELSE module_url \o "/"

\* soup.find_all('a', href=lambda href: href and 'modules' in href)
RECURSIVE ModuleLinks(_)
ModuleLinks(links) ==
    IF links = <<>> THEN <<>>
    ELSE LET link == links[Len(links)]
             rest == ModuleLinks(SubSeq(links, 1, Len(links) - 1))
         IN  IF link.href # "" /\ Contains(link.href, "modules")
             THEN Append(rest, link)
             ELSE rest

\* the loop over module_links with every anchor added: no seen_modules test
RECURSIVE Modules_NoSeenTest(_, _)
Modules_NoSeenTest(path_url, module_links) ==
    IF module_links = <<>> THEN <<>>
    ELSE LET link == module_links[Len(module_links)]
             rest == Modules_NoSeenTest(path_url,
                         SubSeq(module_links, 1, Len(module_links) - 1))
         IN  IF link.text # ""
             THEN Append(rest, [title |-> link.text,
                                url |-> ModuleUrl(path_url, link.href)])
             ELSE rest

\* the loop over module_links: an anchor is added when it has a title and its
\* url is not in seen_modules, the urls of the modules added before it
RECURSIVE Modules(_, _)
Modules(path_url, module_links) ==
    IF module_links = <<>> THEN <<>>
    ELSE LET link == module_links[Len(module_links)]
             rest == Modules(path_url, SubSeq(module_links, 1, Len(module_links) - 1))
             module_url == ModuleUrl(path_url, link.href)
         IN  IF link.text # "" /\ \A j \in 1..Len(rest) : rest[j].url # module_url
             THEN Append(rest, [title |-> link.text, url |-> module_url])
             ELSE rest

\* parse_learning_path once fetch_page has returned the page html
parse_learning_path(path_url, html) ==
    [url |-> path_url,
     title |-> H1Title(html),
     modules |-> Modules(path_url, ModuleLinks(html.links))]

----------------------------------------------------------------------------
(* The calls of parse_learning_path: every sequence of at most MaxLinks    *)
(* sample anchors on the page of a path.                                   *)

PathUrls == {"https://learn.microsoft.com/en-us/training/paths/intro-path/"}

ModuleAnchors ==
    { [href |-> "../../modules/intro-ml/", text |-> "Intro to ML"],
      [href |-> "../../modules/intro-ml", text |-> "Start"],
      [href |-> "/modules/intro-ml/", text |-> ""],
      [href |-> "https://learn.microsoft.com/en-us/training/modules/intro-ml", text |-> "Begin"],
      [href |-> "/training/modules/intro-ml/", text |-> "Intro to ML"],
      [href |-> "../../modules/deploy/", text |-> "Deploy"],
      [href |-> "../../modules/deploy/", text |-> ""],
      [href |-> "modules/extra", text |-> "Extra"],
      [href |-> "/en-us/training/paths/other/", text |-> "Other path"] }

InitPath ==
    /\ args \in [path_url : PathUrls,
                 html : [h1 : {"Path"}, links : SeqsUpTo(ModuleAnchors, MaxLinks)]]
    /\ ret = <<>>
    /\ called = FALSE
    /\ CrawlIdle
    /\ QuizIdle

ParseLearningPath ==
    /\ ~called
    /\ ret' = parse_learning_path(args.path_url, args.html)
    /\ called' = TRUE
    /\ UNCHANGED <<args, crawlVars, quizVars>>

NextPath == ParseLearningPath

SpecPath == InitPath /\ [][NextPath]_vars

\* the positions of the page's anchors that resolve to url
AnchorsOf(url) ==
    {i \in 1..Len(args.html.links) :
        /\ Contains(args.html.links[i].href, "modules")
        /\ ModuleUrl(args.path_url, args.html.links[i].href) = url}

\* those with visible text
TitledAnchorsOf(url) == {i \in AnchorsOf(url) : args.html.links[i].text # ""}

OneEntryPerUrl ==
    \A k, l \in 1..Len(ret.modules) :
        ret.modules[k].url = ret.modules[l].url => k = l

\* C9 as stated: at most one Module entry per resolved URL, titled with the
\* visible text of the first anchor that resolves to that URL.
C9_Original ==
    called =>
        /\ OneEntryPerUrl
        /\ \A k \in 1..Len(ret.modules) :
              /\ AnchorsOf(ret.modules[k].url) # {}
              /\ ret.modules[k].title
                    = args.html.links[Min(AnchorsOf(ret.modules[k].url))].text

\* C9 amended: at most one Module entry per resolved URL; a URL has an entry
\* exactly when an anchor with non-empty visible text resolves to it, and the
\* entry's title is the text of the first such anchor, whatever the text of
\* later anchors.
C9_FirstTitledAnchorWins ==
    called =>
        /\ OneEntryPerUrl
        /\ \A k \in 1..Len(ret.modules) :
              /\ TitledAnchorsOf(ret.modules[k].url) # {}
              /\ ret.modules[k].title
                    = args.html.links[Min(TitledAnchorsOf(ret.modules[k].url))].text
        /\ \A i \in 1..Len(args.html.links) :
              (Contains(args.html.links[i].href, "modules") /\ args.html.links[i].text # "")
                 => \E k \in 1..Len(ret.modules) :
                       ret.modules[k].url = ModuleUrl(args.path_url, args.html.links[i].href)

\* C9's case: two anchors with different text and different hrefs resolved
\* to one URL, and the one entry carries the first anchor's text
C9_Witness ==
    /\ called
    /\ Len(args.html.links) = 2
    /\ args.html.links[1] = [href |-> "../../modules/intro-ml/", text |-> "Intro to ML"]
    /\ args.html.links[2] = [href |-> "https://learn.microsoft.com/en-us/training/modules/intro-ml",
                             text |-> "Begin"]
    /\ ret.modules = << [title |-> "Intro to ML",
                         url |-> "https://learn.microsoft.com/en-us/training/modules/intro-ml/"] >>

----------------------------------------------------------------------------
(* classify_image_type *)

ImageTypes == {"diagram", "screenshot", "chart", "code_example", "icon", "illustration"}

\* the categories in the order of the if / elif chain
Categories == <<"diagram", "screenshot", "chart", "code_example", "icon">>

\* the patterns looked for in src_lower, per category
SrcPatterns ==
    << {"diagram", "architecture", "flowchart", "workflow"},
       {"screenshot", "screen", "ui", "interface"},
       {"chart", "graph", "plot"},
       {"code", "snippet", "example"},
       {"icon", "logo", "badge"} >>

\* the patterns looked for in alt_lower, per category
AltPatterns ==
    << {"diagram", "architecture", "flowchart", "workflow", "hierarchy"},
       {"screenshot", "screen", "interface", "portal", "page", "window"},
       {"chart", "graph", "plot", "visualization"},
       {"code", "snippet", "example", "syntax"},
       {"icon", "logo", "badge", "button"} >>

\* any(pattern in s for pattern in patterns)
AnyIn(s, patterns) == \E pattern \in patterns : Contains(s, pattern)

\* one if / elif chain: the first category with a pattern in s, or "" 
FirstCategory(s, table) ==
    LET hits == {k \in 1..Len(Categories) : AnyIn(s, table[k])}
    IN  IF hits = {} THEN "" ELSE Categories[Min(hits)]

\* a slip that reads the alt text before the filename
classify_image_type_AltFirst(src, alt_text) ==
    IF FirstCategory(Lower(alt_text), AltPatterns) # ""
    THEN FirstCategory(Lower(alt_text), AltPatterns)
    ELSE IF FirstCategory(Lower(src), SrcPatterns) # ""
    THEN FirstCategory(Lower(src), SrcPatterns)
    ELSE "illustration"

classify_image_type(src, alt_text) ==
    IF FirstCategory(Lower(src), SrcPatterns) # ""
    THEN FirstCategory(Lower(src), SrcPatterns)
    ELSE IF FirstCategory(Lower(alt_text), AltPatterns) # ""
    THEN FirstCategory(Lower(alt_text), AltPatterns)
    ELSE "illustration"

----------------------------------------------------------------------------
(* The calls of classify_image_type: every sample src with every sample    *)
(* alt text.                                                               *)

ImageSrcs ==
    { "media/architecture-diagram.png",
      "media/pic1.png",
      "media/Screenshot-Chart.PNG",
      "media/bar-chart-code.png",
      "media/code-icon.svg",
      "media/logo.png",
      "../../wwl/build-ui/media/pic1.png",
      "media/portal.png",
      "media/hierarchy.png",
      "media/workflow-graph.png",
      "" }

AltTexts ==
    { "Overview",
      "Portal screenshot",
      "Architecture diagram",
      "Bar chart",
      "Syntax of the command",
      "Button",
      "A WINDOW",
      "Pie graph with logo",
      "Class hierarchy",
      "" }

InitImage ==
    /\ args \in [src : ImageSrcs, alt_text : AltTexts]
    /\ ret = ""
    /\ called = FALSE
    /\ CrawlIdle
    /\ QuizIdle

ClassifyImageType ==
    /\ ~called
    /\ ret' = classify_image_type(args.src, args.alt_text)
    /\ called' = TRUE
    /\ UNCHANGED <<args, crawlVars, quizVars>>

NextImage == ClassifyImageType

SpecImage == InitImage /\ [][NextImage]_vars

\* the categories, by position in the fixed order, one of whose filename
\* substrings occurs in the lower-cased src the function was given
FilenameHits == {k \in 1..5 : \E p \in SrcPatterns[k] : Contains(Lower(args.src), p)}

\* the categories one of whose alt-text substrings occurs in the lower-cased
\* alt text
AltHits == {k \in 1..5 : \E p \in AltPatterns[k] : Contains(Lower(args.alt_text), p)}

----------------------------------------------------------------------------
(* Python dict and list operations *)

\* d1.update(d2)
UpdateDict(d1, d2) ==
    [k \in (DOMAIN d1) \cup (DOMAIN d2) |-> IF k \in DOMAIN d2 THEN d2[k] ELSE d1[k]]

\* d.get(key, default)
Get(d, key, default) == IF key \in DOMAIN d THEN d[key] ELSE default

\* seq[:n]
SliceTo(seq, n) ==
    IF n >= 0
    THEN SubSeq(seq, 1, IF n < Len(seq) THEN n ELSE Len(seq))
    ELSE SubSeq(seq, 1, IF Len(seq) + n > 0 THEN Len(seq) + n ELSE 0)

\* a limit of the command line is <<>> (None, the option was not given) or
\* <<n>>; "if self.max_paths:" is false for None and for 0
Truthy(limit) == limit # <<>> /\ limit[1] # 0

\* "if self.max_x: xs = xs[:self.max_x]"
ApplyLimit(limit, seq) == IF Truthy(limit) THEN SliceTo(seq, limit[1]) ELSE seq

----------------------------------------------------------------------------
(* parse_course_page *)

IsLetter(c) == IsUpper(c) \/ IsLower(c)

\* s.title(): a letter is upper-cased after a non-letter, lower-cased after a
\* letter
RECURSIVE TitleFrom(_, _)
TitleFrom(s, prev) ==
    IF s = "" THEN ""
    ELSE LET c == Char(s, 1)
         IN  (IF IsLetter(prev) THEN LowerChar(c) ELSE UpperChar(c))
                 \o TitleFrom(SubSeq(s, 2, Len(s)), c)

Title(s) == TitleFrom(s, "")

\* s.split('.')[-1]
LastDotPart(s) ==
    LET dots == {i \in 1..Len(s) : Char(s, i) = "."}
    IN  IF dots = {} THEN s ELSE SubSeq(s, Max(dots) + 1, Len(s))

\* the loop over the articles with a data-learn-uid attribute
RECURSIVE LearningPaths(_)
LearningPaths(uids) ==
    IF uids = <<>> THEN <<>>
    ELSE LET learn_uid == uids[Len(uids)]
             rest == LearningPaths(SubSeq(uids, 1, Len(uids) - 1))
             path_slug == LastDotPart(learn_uid)
         IN  IF learn_uid # "" /\ StartsWith(learn_uid, "learn.")
             THEN Append(rest, [title |-> Title(Replace(path_slug, "-", " ")),
                                url |-> base_url \o "/en-us/training/paths/" \o path_slug \o "/",
                                learn_uid |-> learn_uid])
             ELSE rest

\* parse_course_page once fetch_page has returned the page html, a record of
\* the page's h1 text and the data-learn-uid values of its articles
parse_course_page(course_url, html) ==
    [url |-> course_url,
     title |-> H1Title(html),
     description |-> "",
     learning_paths |-> LearningPaths(html.uids)]

----------------------------------------------------------------------------
(* The file name of a course: load_existing_data and main *)

IsWordChar(c) == IsLetter(c) \/ IsDigit(c) \/ c = "_"

IsSpace(c) == c \in Whitespace

\* re.sub(r'[^\w\s-]', '', s)
RECURSIVE DropOthers(_)
DropOthers(s) ==
    IF s = "" THEN ""
    ELSE LET c == Char(s, 1)
         IN  (IF IsWordChar(c) \/ IsSpace(c) \/ c = "-" THEN c ELSE "")
                 \o DropOthers(SubSeq(s, 2, Len(s)))

\* s.strip()
RECURSIVE Strip(_)
Strip(s) ==
    IF s = "" THEN ""
    ELSE IF IsSpace(Char(s, 1)) THEN Strip(SubSeq(s, 2, Len(s)))
    ELSE IF IsSpace(Char(s, Len(s))) THEN Strip(SubSeq(s, 1, Len(s) - 1))
    ELSE s

\* re.sub(r'[-\s]+', '-', s)
RECURSIVE Hyphenate(_, _)
Hyphenate(s, inRun) ==
    IF s = "" THEN ""
    ELSE LET c == Char(s, 1)
             sep == IsSpace(c) \/ c = "-"
         IN  (IF sep THEN (IF inRun THEN "" ELSE "-") ELSE c)
                 \o Hyphenate(SubSeq(s, 2, Len(s)), sep)

safe_title(course_title) == Lower(Hyphenate(Strip(DropOthers(course_title)), FALSE))

output_dir == "output"

\* os.path.join(output_dir, f"{safe_title}_complete.json") and its siblings
json_filename(course_title) == output_dir \o "/" \o safe_title(course_title) \o "_complete.json"
jsonl_filename(course_title) == output_dir \o "/" \o safe_title(course_title) \o "_training.jsonl"
summary_filename(course_title) == output_dir \o "/" \o safe_title(course_title) \o "_summary.json"

----------------------------------------------------------------------------
(* get_existing_unit_content and generate_training_jsonl *)

\* the <<path, module, unit>> positions of the units of a tree
UnitPositions(tree) ==
    UNION { UNION { { <<p, m, u>> :
                        u \in 1..Len(Get(tree.learning_paths[p].modules[m], "units", <<>>)) } :
                    m \in 1..Len(Get(tree.learning_paths[p], "modules", <<>>)) } :
            p \in 1..Len(tree.learning_paths) }

\* the units with this title triple that have content: the test of the three
\* nested loops
ContentfulMatches(tree, path_title, module_title, unit_title) ==
    { pos \in UnitPositions(tree) :
        LET path == tree.learning_paths[pos[1]]
            module == path.modules[pos[2]]
            unit == module.units[pos[3]]
        IN  /\ "title" \in DOMAIN path /\ path.title = path_title
            /\ "title" \in DOMAIN module /\ module.title = module_title
            /\ "title" \in DOMAIN unit /\ unit.title = unit_title
            /\ Get(unit, "content", "") # "" }

\* the first of a set of <<path, module, unit>> positions in loop order
FirstPos(S) ==
    CHOOSE a \in S : \A b \in S :
        \/ a[1] < b[1]
        \/ (a[1] = b[1] /\ a[2] < b[2])
        \/ (a[1] = b[1] /\ a[2] = b[2] /\ a[3] <= b[3])

\* get_existing_unit_content; None is <<>>
get_existing_unit_content(tree, path_title, module_title, unit_title) ==
    IF tree = <<>> \/ "learning_paths" \notin DOMAIN tree THEN <<>>
    ELSE LET hits == ContentfulMatches(tree, path_title, module_title, unit_title)
         IN  IF hits = {} THEN <<>>
             ELSE LET pos == FirstPos(hits)
                      unit == tree.learning_paths[pos[1]].modules[pos[2]].units[pos[3]]
                  IN  [content |-> unit.content,
                       headings |-> Get(unit, "headings", <<>>),
                       code_blocks |-> Get(unit, "code_blocks", <<>>),
                       images |-> Get(unit, "images", <<>>),
                       links |-> Get(unit, "links", <<>>)]

\* generate_training_jsonl without its "if unit.get('content'):" test
RECURSIVE UnitRecords_NoContentTest(_, _, _, _, _)
UnitRecords_NoContentTest(tree, path, module, units, now) ==
    IF units = <<>> THEN <<>>
    ELSE LET unit == units[Len(units)]
             rest == UnitRecords_NoContentTest(tree, path, module,
                                               SubSeq(units, 1, Len(units) - 1), now)
         IN  Append(rest, [course_title |-> Get(tree, "title", ""),
                           learning_path |-> Get(path, "title", ""),
                           module_title |-> Get(module, "title", ""),
                           unit_title |-> Get(unit, "title", ""),
                           unit_url |-> Get(unit, "url", ""),
                           content |-> Get(unit, "content", ""),
                           headings |-> Get(unit, "headings", <<>>),
                           code_blocks |-> Get(unit, "code_blocks", <<>>),
                           images |-> Get(unit, "images", <<>>),
                           scraped_at |-> now])

\* the records of one module, one per unit with content
RECURSIVE UnitRecords(_, _, _, _, _)
UnitRecords(tree, path, module, units, now) ==
    IF units = <<>> THEN <<>>
    ELSE LET unit == units[Len(units)]
             rest == UnitRecords(tree, path, module, SubSeq(units, 1, Len(units) - 1), now)
         IN  IF Get(unit, "content", "") # ""
             THEN Append(rest, [course_title |-> Get(tree, "title", ""),
                                learning_path |-> Get(path, "title", ""),
                                module_title |-> Get(module, "title", ""),
                                unit_title |-> Get(unit, "title", ""),
                                unit_url |-> Get(unit, "url", ""),
                                content |-> Get(unit, "content", ""),
                                headings |-> Get(unit, "headings", <<>>),
                                code_blocks |-> Get(unit, "code_blocks", <<>>),
                                images |-> Get(unit, "images", <<>>),
                                scraped_at |-> now])
             ELSE rest

RECURSIVE ModuleRecords(_, _, _, _)
ModuleRecords(tree, path, modules, now) ==
    IF modules = <<>> THEN <<>>
    ELSE ModuleRecords(tree, path, SubSeq(modules, 1, Len(modules) - 1), now)
            \o UnitRecords(tree, path, modules[Len(modules)],
                           Get(modules[Len(modules)], "units", <<>>), now)

RECURSIVE PathRecords(_, _, _)
PathRecords(tree, paths, now) ==
    IF paths = <<>> THEN <<>>
    ELSE PathRecords(tree, SubSeq(paths, 1, Len(paths) - 1), now)
            \o ModuleRecords(tree, paths[Len(paths)],
                             Get(paths[Len(paths)], "modules", <<>>), now)

\* generate_training_jsonl: the lines written, each the record json.dumps
\* renders (equal records give equal lines: the keys are written in the fixed
\* order of the dict literal); now is what datetime.now() reads
generate_training_jsonl(tree, now) ==
    PathRecords(tree, Get(tree, "learning_paths", <<>>), now)

\* sum(len(path.get('modules', [])) for path in paths)
RECURSIVE TotalModules(_)
TotalModules(paths) ==
    IF paths = <<>> THEN 0
    ELSE TotalModules(SubSeq(paths, 1, Len(paths) - 1))
            + Len(Get(paths[Len(paths)], "modules", <<>>))

RECURSIVE UnitsOfModules(_)
UnitsOfModules(modules) ==
    IF modules = <<>> THEN 0
    ELSE UnitsOfModules(SubSeq(modules, 1, Len(modules) - 1))
            + Len(Get(modules[Len(modules)], "units", <<>>))

\* sum(len(module.get('units', [])) for path in paths for module in ...)
RECURSIVE TotalUnits(_)
TotalUnits(paths) ==
    IF paths = <<>> THEN 0
    ELSE TotalUnits(SubSeq(paths, 1, Len(paths) - 1))
            + UnitsOfModules(Get(paths[Len(paths)], "modules", <<>>))

----------------------------------------------------------------------------
(* The site the crawl runs against: a course of NumPaths learning paths;   *)
(* the first path links to NumModules modules and the others to one; the   *)
(* first module of the first path links to NumUnits units and the others   *)
(* to one.  The pages of the paths, modules and units do not change        *)
(* between runs; the course page is served with or without its             *)
(* learning-path articles.                                                 *)

NumPaths == 2
NumModules == 2
NumUnits == 2

course_url == "https://learn.microsoft.com/en-us/training/courses/dp-100t01"

CoursePage ==
    [h1 |-> "Course DP-100: Data science",
     uids |-> [i \in 1..NumPaths |-> "learn.wwl.path-" \o Str(i)] \o <<"catalog.other">>]

\* the course page as served without its learning-path articles
CoursePageNoPaths == [h1 |-> CoursePage.h1, uids |-> <<"catalog.other">>]

\* what a fetch of the course URL may return
CoursePages == {CoursePage, CoursePageNoPaths}

SitePathUrl(i) == base_url \o "/en-us/training/paths/path-" \o Str(i) \o "/"

ModulesOn(i) == IF i = 1 THEN NumModules ELSE 1

SiteModuleUrl(i, j) ==
    base_url \o "/en-us/training/modules/module-" \o Str(i) \o Str(j) \o "/"

UnitsOn(i, j) == IF i = 1 /\ j = 1 THEN NumUnits ELSE 1

SiteUnitUrl(i, j, k) == SiteModuleUrl(i, j) \o Str(k) \o "-unit"

\* the page of path i: its title differs from the one generated from the slug
PathPageOf(i) ==
    [h1 |-> "Learning path " \o Str(i),
     links |-> [j \in 1..ModulesOn(i) |->
                   [href |-> "../../modules/module-" \o Str(i) \o Str(j) \o "/",
                    text |-> "Module " \o Str(i) \o Str(j)]]
               \o << [href |-> "/en-us/training/browse/", text |-> "Browse"] >>]

\* the page of module j of path i: it lists its units last first
ModulePageOf(i, j) ==
    [h1 |-> "Module " \o Str(i) \o Str(j),
     links |-> [k \in 1..UnitsOn(i, j) |->
                   [href |-> Str(UnitsOn(i, j) + 1 - k) \o "-unit",
                    text |-> "Unit " \o Str(UnitsOn(i, j) + 1 - k)]]]

\* what the content extractor makes of the page of a unit: the only unit of
\* the last path has an empty page
UnitPageOf(i, j, k) ==
    [content |-> IF i = NumPaths /\ i > 1 THEN "" ELSE "Text of " \o SiteUnitUrl(i, j, k),
     headings |-> << [level |-> 1, text |-> "Unit " \o Str(k)] >>,
     code_blocks |-> <<>>,
     images |-> <<>>,
     links |-> <<>>]

PathPage(url) == PathPageOf(CHOOSE i \in 1..NumPaths : SitePathUrl(i) = url)

ModulePage(url) ==
    LET ij == CHOOSE q \in (1..NumPaths) \X (1..NumModules) :
                  q[2] <= ModulesOn(q[1]) /\ SiteModuleUrl(q[1], q[2]) = url
    IN  ModulePageOf(ij[1], ij[2])

UnitPage(url) ==
    LET ijk == CHOOSE q \in (1..NumPaths) \X (1..NumModules) \X (1..NumUnits) :
                   /\ q[2] <= ModulesOn(q[1])
                   /\ q[3] <= UnitsOn(q[1], q[2])
                   /\ SiteUnitUrl(q[1], q[2], q[3]) = url
    IN  UnitPageOf(ijk[1], ijk[2], ijk[3])

----------------------------------------------------------------------------
(* main and scrape_course *)

MaxRuns == 2
MaxFailures == 1

\* the values of --max-paths, --max-modules, --max-units: not given, or 1
LimitValues == {<<>>, <<1>>}

\* the command lines
Configs ==
    [max_paths : LimitValues,
     max_modules_per_path : LimitValues,
     max_units_per_module : LimitValues,
     extract_content : BOOLEAN,
     resume : BOOLEAN]

Init ==
    /\ args = <<>>
    /\ ret = <<>>
    /\ called = FALSE
    /\ CrawlIdle
    /\ QuizIdle

\* fetch_page(url) as the log records it: ok is whether it returned a page
FetchEvent(url, ok) == [op |-> "fetch", url |-> url, ok |-> ok]

\* time.sleep(0.5)
SleepEvent == [op |-> "sleep"]

\* fetch_page may fail (None) while failures are left to spend
MayFetch(ok) == (~ok) => failures < MaxFailures

Spend(ok) == IF ok THEN failures ELSE failures + 1

\* the slices taken at lines 434-436, 452-454 and 465-467; the lists they
\* are taken from keep their length afterwards, only their elements change
paths_to_process == ApplyLimit(cfg.max_paths, course_data.learning_paths)

path_info == course_data.learning_paths[path_idx]

modules_to_process == ApplyLimit(cfg.max_modules_per_path, path_info.modules)

module_info == path_info.modules[module_idx]

units_to_process == ApplyLimit(cfg.max_units_per_module, module_info.units)

unit_info == module_info.units[unit_idx]

\* main is started with one of these command lines: the scraper is
\* constructed, start_time is read, scrape_course is entered
Start(configs) ==
    /\ pc \in {"idle", "done"}
    /\ run < MaxRuns
    /\ \E c \in configs : cfg' = c
    /\ run' = run + 1
    /\ clock' = clock + 1
    /\ pc' = IF cfg'.resume THEN "load" ELSE "parse_course"
    /\ course_data' = <<>>
    /\ existing_data' = "None"
    /\ path_idx' = 0
    /\ module_idx' = 0
    /\ unit_idx' = 0
    /\ returned' = <<>>
    /\ exc' = ""
    /\ written' = FALSE
    /\ log' = <<>>
    /\ UNCHANGED <<disk, failures, pureVars, quizVars>>

MainStart == Start(Configs)

\* lines 418-434: load_existing_data, then "if existing_data:"; a loaded
\* document is bound to course_data whatever its keys, and
\* course_data['learning_paths'] at line 434 raises KeyError when it has none
LoadExistingData ==
    /\ pc = "load"
    /\ \E ok \in BOOLEAN, html \in CoursePages :
        /\ MayFetch(ok)
        /\ failures' = Spend(ok)
        /\ log' = Append(log, FetchEvent(course_url, ok))
        /\ LET page == IF ok THEN parse_course_page(course_url, html) ELSE <<>>
               name == json_filename(Get(page, "title", "unknown-course"))
               loaded == IF page # <<>> /\ name \in DOMAIN disk /\ disk[name].valid
                         THEN disk[name].value
                         ELSE <<>>
           IN  IF loaded = <<>>
               THEN /\ pc' = "parse_course"
                    /\ UNCHANGED <<course_data, existing_data, path_idx, exc>>
               ELSE /\ course_data' = loaded
                    /\ existing_data' = "course_data"
                    /\ IF "learning_paths" \in DOMAIN loaded
                       THEN /\ path_idx' = 1
                            /\ pc' = "path_loop"
                            /\ UNCHANGED exc
                       ELSE /\ exc' = "KeyError"
                            /\ pc' = "except"
                            /\ UNCHANGED path_idx
    /\ UNCHANGED <<run, cfg, module_idx, unit_idx, returned, disk, written,
                   clock, pureVars, quizVars>>

\* lines 428-431: parse_course_page, then course_data['learning_paths'],
\* which raises KeyError on the {} of a failed fetch
ParseCoursePage ==
    /\ pc = "parse_course"
    /\ \E ok \in BOOLEAN, html \in CoursePages :
        /\ MayFetch(ok)
        /\ failures' = Spend(ok)
        /\ log' = Append(log, FetchEvent(course_url, ok))
        /\ course_data' = IF ok THEN parse_course_page(course_url, html) ELSE <<>>
        /\ IF "learning_paths" \notin DOMAIN course_data'
           THEN /\ exc' = "KeyError"
                /\ pc' = "except"
                /\ UNCHANGED <<returned, path_idx>>
           ELSE IF course_data'.learning_paths = <<>>
           THEN /\ returned' = <<>>
                /\ pc' = "returned"
                /\ UNCHANGED <<exc, path_idx>>
           ELSE /\ path_idx' = 1
                /\ pc' = "path_loop"
                /\ UNCHANGED <<exc, returned>>
    /\ UNCHANGED <<run, cfg, existing_data, module_idx, unit_idx, disk, written,
                   clock, pureVars, quizVars>>

\* the loop over paths with "break" in the place of its "continue"
ProcessPath_BreakOnFailure ==
    /\ pc = "path_loop"
    /\ path_idx <= Len(paths_to_process)
    /\ \E ok \in BOOLEAN :
        /\ MayFetch(ok)
        /\ failures' = Spend(ok)
        /\ log' = Append(log, FetchEvent(path_info.url, ok))
        /\ LET path_data == IF ok THEN parse_learning_path(path_info.url, PathPage(path_info.url))
                            ELSE <<>>
               updated == UpdateDict(path_info, path_data)
           IN  /\ course_data' = [course_data EXCEPT !.learning_paths[path_idx] = updated]
               /\ IF path_data = <<>> \/ "modules" \notin DOMAIN updated
                  THEN /\ path_idx' = Len(paths_to_process) + 1
                       /\ pc' = "path_loop"
                       /\ UNCHANGED module_idx
                  ELSE /\ module_idx' = 1
                       /\ pc' = "module_loop"
                       /\ UNCHANGED path_idx
    /\ UNCHANGED <<run, cfg, existing_data, unit_idx, returned, exc, disk, written,
                   clock, pureVars, quizVars>>

\* lines 439-454: one turn of the loop over paths_to_process, to the start of
\* its loop over modules, or to "continue"
ProcessPath ==
    /\ pc = "path_loop"
    /\ path_idx <= Len(paths_to_process)
    /\ \E ok \in BOOLEAN :
        /\ MayFetch(ok)
        /\ failures' = Spend(ok)
        /\ log' = Append(log, FetchEvent(path_info.url, ok))
        /\ LET path_data == IF ok THEN parse_learning_path(path_info.url, PathPage(path_info.url))
                            ELSE <<>>
               updated == UpdateDict(path_info, path_data)
           IN  /\ course_data' = [course_data EXCEPT !.learning_paths[path_idx] = updated]
               /\ IF path_data = <<>> \/ "modules" \notin DOMAIN updated
                  THEN /\ path_idx' = path_idx + 1
                       /\ pc' = "path_loop"
                       /\ UNCHANGED module_idx
                  ELSE /\ module_idx' = 1
                       /\ pc' = "module_loop"
                       /\ UNCHANGED path_idx
    /\ UNCHANGED <<run, cfg, existing_data, unit_idx, returned, exc, disk, written,
                   clock, pureVars, quizVars>>

\* line 498: the loop over paths_to_process is over, return course_data
ReturnCourseData ==
    /\ pc = "path_loop"
    /\ path_idx > Len(paths_to_process)
    /\ returned' = course_data
    /\ pc' = "returned"
    /\ UNCHANGED <<run, cfg, course_data, existing_data, path_idx, module_idx, unit_idx,
                   exc, disk, written, log, failures, clock, pureVars, quizVars>>

\* lines 457-467: one turn of the loop over modules_to_process, to the start
\* of its loop over units; module_info['units'] raises KeyError when the
\* module has no such key
ProcessModule ==
    /\ pc = "module_loop"
    /\ module_idx <= Len(modules_to_process)
    /\ \E ok \in BOOLEAN :
        /\ MayFetch(ok)
        /\ failures' = Spend(ok)
        /\ log' = Append(log, FetchEvent(module_info.url, ok))
        /\ LET module_data == IF ok THEN parse_module_page(module_info.url, ModulePage(module_info.url))
                              ELSE <<>>
               updated == UpdateDict(module_info, module_data)
           IN  /\ course_data' = [course_data EXCEPT
                     !.learning_paths[path_idx].modules[module_idx] = updated]
               /\ IF "units" \notin DOMAIN updated
                  THEN /\ exc' = "KeyError"
                       /\ pc' = "except"
                       /\ UNCHANGED unit_idx
                  ELSE /\ unit_idx' = 1
                       /\ pc' = "unit_loop"
                       /\ UNCHANGED exc
    /\ UNCHANGED <<run, cfg, existing_data, path_idx, module_idx, returned, disk,
                   written, clock, pureVars, quizVars>>

\* lines 495-496: the loop over modules_to_process is over: the pause between
\* learning paths, then the next path
EndModules ==
    /\ pc = "module_loop"
    /\ module_idx > Len(modules_to_process)
    /\ log' = Append(log, SleepEvent)
    /\ path_idx' = path_idx + 1
    /\ pc' = "path_loop"
    /\ UNCHANGED <<run, cfg, course_data, existing_data, module_idx, unit_idx, returned,
                   exc, disk, written, failures, clock, pureVars, quizVars>>

\* the content a resumed run would reuse for the unit at hand (lines 474-475);
\* existing_data is the object course_data, as it is at this moment
existing_unit_content ==
    IF existing_data = "None" THEN <<>>
    ELSE get_existing_unit_content(course_data, path_info.title, module_info.title,
                                   unit_info.title)

\* parse_unit_content once fetch_page has returned the page of the unit
parse_unit_content(unit_url) == UnitPage(unit_url)

\* lines 470-490: one turn of the loop over units_to_process
ProcessUnit ==
    /\ pc = "unit_loop"
    /\ unit_idx <= Len(units_to_process)
    /\ LET reuse == existing_unit_content
           fetches == reuse = <<>> /\ cfg.extract_content
       IN  \E ok \in (IF fetches THEN BOOLEAN ELSE {TRUE}) :
             /\ MayFetch(ok)
             /\ failures' = Spend(ok)
             /\ LET unit_content ==
                        IF reuse # <<>> THEN reuse
                        ELSE IF fetches /\ ok THEN parse_unit_content(unit_info.url)
                        ELSE <<>>
                IN  course_data' = [course_data EXCEPT
                        !.learning_paths[path_idx].modules[module_idx].units[unit_idx]
                            = UpdateDict(@, unit_content)]
             /\ log' = IF reuse # <<>> THEN log
                       ELSE IF fetches
                       THEN log \o <<FetchEvent(unit_info.url, ok), SleepEvent>>
                       ELSE Append(log, SleepEvent)
    /\ unit_idx' = unit_idx + 1
    /\ UNCHANGED <<pc, run, cfg, existing_data, path_idx, module_idx, returned, exc,
                   disk, written, clock, pureVars, quizVars>>

\* lines 492-493: the loop over units_to_process is over: the pause between
\* modules, then the next module
EndUnits ==
    /\ pc = "unit_loop"
    /\ unit_idx > Len(units_to_process)
    /\ log' = Append(log, SleepEvent)
    /\ module_idx' = module_idx + 1
    /\ pc' = "module_loop"
    /\ UNCHANGED <<run, cfg, course_data, existing_data, path_idx, unit_idx, returned,
                   exc, disk, written, failures, clock, pureVars, quizVars>>

\* a file holding a JSON document
JsonFile(value) == [valid |-> TRUE, value |-> value]

\* the summary main writes
Summary(tree) ==
    [course_title |-> Get(tree, "title", ""),
     course_url |-> course_url,
     learning_paths_count |-> Len(Get(tree, "learning_paths", <<>>)),
     total_modules |-> TotalModules(Get(tree, "learning_paths", <<>>)),
     total_units |-> TotalUnits(Get(tree, "learning_paths", <<>>)),
     content_extracted |-> cfg.extract_content,
     limits_applied |-> [max_paths |-> cfg.max_paths,
                         max_modules_per_path |-> cfg.max_modules_per_path,
                         max_units_per_module |-> cfg.max_units_per_module]]

\* main without its "if course_data:" test: the files are written whatever
\* scrape_course returned
MainWrite_NoTest ==
    /\ pc = "returned"
    /\ LET title == Get(returned, "title", "unknown-course")
           files == [name \in {json_filename(title), summary_filename(title)}
                                \cup (IF cfg.extract_content
                                      THEN {jsonl_filename(title)} ELSE {}) |->
                       IF name = json_filename(title) THEN JsonFile(returned)
                       ELSE IF name = summary_filename(title)
                       THEN JsonFile(Summary(returned))
                       ELSE JsonFile(generate_training_jsonl(returned, clock + 1))]
       IN  /\ disk' = UpdateDict(disk, files)
           /\ written' = TRUE
           /\ clock' = IF cfg.extract_content THEN clock + 1 ELSE clock
    /\ pc' = "done"
    /\ UNCHANGED <<run, cfg, course_data, existing_data, path_idx, module_idx, unit_idx,
                   returned, exc, log, failures, pureVars, quizVars>>

\* lines 618-669: scrape_course has returned; "if course_data:" writes the
\* tree, the record stream (unless --no-content) and the summary
MainWrite ==
    /\ pc = "returned"
    /\ IF returned # <<>>
       THEN LET title == Get(returned, "title", "unknown-course")
                files == [name \in {json_filename(title), summary_filename(title)}
                                     \cup (IF cfg.extract_content
                                           THEN {jsonl_filename(title)} ELSE {}) |->
                            IF name = json_filename(title) THEN JsonFile(returned)
                            ELSE IF name = summary_filename(title)
                            THEN JsonFile(Summary(returned))
                            ELSE JsonFile(generate_training_jsonl(returned, clock + 1))]
            IN  /\ disk' = UpdateDict(disk, files)
                /\ written' = TRUE
                /\ clock' = IF cfg.extract_content THEN clock + 1 ELSE clock
       ELSE UNCHANGED <<disk, written, clock>>
    /\ pc' = "done"
    /\ UNCHANGED <<run, cfg, course_data, existing_data, path_idx, module_idx, unit_idx,
                   returned, exc, log, failures, pureVars, quizVars>>

\* lines 671-674: an exception escaped scrape_course; main prints it
MainExcept ==
    /\ pc = "except"
    /\ pc' = "done"
    /\ UNCHANGED <<run, cfg, course_data, existing_data, path_idx, module_idx, unit_idx,
                   returned, exc, disk, written, log, failures, clock, pureVars, quizVars>>

Next ==
    \/ MainStart
    \/ LoadExistingData
    \/ ParseCoursePage
    \/ ProcessPath
    \/ ReturnCourseData
    \/ ProcessModule
    \/ EndModules
    \/ ProcessUnit
    \/ EndUnits
    \/ MainWrite
    \/ MainExcept

Spec == Init /\ [][Next]_vars

----------------------------------------------------------------------------
(* Properties of the crawl *)

\* the positions of the log that are fetches
Fetches == {i \in 1..Len(log) : log[i].op = "fetch"}

\* the URLs fetch_page was called with in the current run
FetchedUrls == {log[i].url : i \in Fetches}

\* a fetch of url failed in the current run
FetchFailed(url) == \E i \in Fetches : log[i].url = url /\ ~log[i].ok

\* a fetch of url returned its page in the current run
FetchSucceeded(url) == \E i \in Fetches : log[i].url = url /\ log[i].ok

\* the name of the persisted tree of the course
PersistedName == json_filename(H1Title(CoursePage))

\* the name of the record stream of the course
StreamName == jsonl_filename(H1Title(CoursePage))

\* the unit at a <<path, module, unit>> position of a tree
UnitAt(tree, pos) == tree.learning_paths[pos[1]].modules[pos[2]].units[pos[3]]

\* the prior units with content that have the title triple of the unit at pos
PriorMatches(prior, tree, pos) ==
    ContentfulMatches(prior,
                      tree.learning_paths[pos[1]].title,
                      tree.learning_paths[pos[1]].modules[pos[2]].title,
                      UnitAt(tree, pos).title)

\* C1: in a resumed run, every unit of the output tree whose title triple
\* matches a unit of the persisted prior tree with non-empty content C carries
\* exactly C, and its URL is not fetched during the run.
C1_MergeReusesContent ==
    (pc = "returned" /\ existing_data = "course_data") =>
        \A pos \in UnitPositions(returned) :
            LET prior == disk[PersistedName].value
                hits == PriorMatches(prior, returned, pos)
            IN  hits # {} =>
                    /\ Get(UnitAt(returned, pos), "content", "")
                          = UnitAt(prior, FirstPos(hits)).content
                    /\ UnitAt(returned, pos).url \notin FetchedUrls

\* a limit allows position n of its list
Within(limit, n) == Truthy(limit) => n <= limit[1]

\* C2: when the fetch of one module page of a path fails, scrape_course
\* raises nothing and returns, and every other module of that path within the
\* module limit has been fetched and holds its units.
C2_ModuleFailureContained ==
    \A i \in 1..NumPaths : \A j \in 1..ModulesOn(i) :
        (pc \in {"returned", "except"} /\ FetchFailed(SiteModuleUrl(i, j))) =>
            /\ pc = "returned"
            /\ exc = ""
            /\ \A k \in 1..ModulesOn(i) :
                  (k # j /\ Within(cfg.max_modules_per_path, k)) =>
                      /\ FetchSucceeded(SiteModuleUrl(i, k))
                      /\ "units" \in DOMAIN returned.learning_paths[i].modules[k]

\* every fetch of the course page made in the current run failed
CourseFetchFailed ==
    /\ \E i \in Fetches : log[i].url = course_url
    /\ \A i \in Fetches : log[i].url = course_url => ~log[i].ok

\* C3: when the fetch of the course page fails, scrape_course returns the
\* empty result, no exception escapes it, no other page is fetched and main
\* writes nothing.
C3_CourseFailureReturnsEmpty ==
    (pc = "done" /\ CourseFetchFailed) =>
        /\ exc = ""
        /\ returned = <<>>
        /\ FetchedUrls = {course_url}
        /\ ~written

\* C4: with a limit n >= 1 at a rank, a list of that rank discovered with
\* more than n entries is in the returned tree with exactly n entries, the
\* first n discovered, and the summary counts them so.
C4_LimitsTruncateOutput ==
    (pc = "returned" /\ returned # <<>>) =>
        /\ (Truthy(cfg.max_paths) /\ cfg.max_paths[1] >= 1 /\ NumPaths > cfg.max_paths[1])
              => /\ Len(returned.learning_paths) = cfg.max_paths[1]
                 /\ \A i \in 1..Len(returned.learning_paths) :
                       returned.learning_paths[i].url = SitePathUrl(i)
        /\ \A i \in 1..Len(returned.learning_paths) :
              (/\ FetchSucceeded(SitePathUrl(i))
               /\ Truthy(cfg.max_modules_per_path)
               /\ cfg.max_modules_per_path[1] >= 1
               /\ ModulesOn(i) > cfg.max_modules_per_path[1])
              => /\ Len(returned.learning_paths[i].modules) = cfg.max_modules_per_path[1]
                 /\ \A j \in 1..Len(returned.learning_paths[i].modules) :
                       returned.learning_paths[i].modules[j].url = SiteModuleUrl(i, j)
                 /\ Summary(returned).total_modules
                       = TotalModules(ApplyLimit(cfg.max_paths, returned.learning_paths))
        /\ \A i \in 1..NumPaths : \A j \in 1..ModulesOn(i) :
              (/\ FetchSucceeded(SiteModuleUrl(i, j))
               /\ Truthy(cfg.max_units_per_module)
               /\ cfg.max_units_per_module[1] >= 1
               /\ UnitsOn(i, j) > cfg.max_units_per_module[1])
              => /\ Len(returned.learning_paths[i].modules[j].units)
                       = cfg.max_units_per_module[1]
                 /\ \A k \in 1..Len(returned.learning_paths[i].modules[j].units) :
                       returned.learning_paths[i].modules[j].units[k].url
                          = SiteUnitUrl(i, j, k)

\* the run at hand repeats the run that wrote the files on disk: same limits,
\* content extracted both times, resume on, and no fetch has failed in either
RepeatsPersistedRun ==
    /\ pc = "returned"
    /\ returned # <<>>
    /\ existing_data = "course_data"
    /\ cfg.resume
    /\ cfg.extract_content
    /\ failures = 0
    /\ summary_filename(H1Title(CoursePage)) \in DOMAIN disk
    /\ StreamName \in DOMAIN disk
    /\ LET summary == disk[summary_filename(H1Title(CoursePage))].value
       IN  /\ summary.content_extracted
           /\ summary.limits_applied.max_paths = cfg.max_paths
           /\ summary.limits_applied.max_modules_per_path = cfg.max_modules_per_path
           /\ summary.limits_applied.max_units_per_module = cfg.max_units_per_module

\* C5: a second run with resume on, against the unchanged site and the tree
\* the first run persisted, writes a record stream equal to the first run's
\* in every field of every record.
C5_SecondRunSameStream ==
    [][RepeatsPersistedRun => disk'[StreamName] = disk[StreamName]]_vars

\* the units of a tree that have non-empty content
ContentfulPositions(tree) ==
    {pos \in UnitPositions(tree) : Get(UnitAt(tree, pos), "content", "") # ""}

\* position a comes before position b in the traversal of the tree
Before(a, b) ==
    \/ a[1] < b[1]
    \/ (a[1] = b[1] /\ a[2] < b[2])
    \/ (a[1] = b[1] /\ a[2] = b[2] /\ a[3] < b[3])

\* the place of position a among the positions S, in traversal order
RankOf(S, a) == Cardinality({b \in S : Before(b, a)}) + 1

\* main has written the tree and the record stream of the course
StreamWritten ==
    /\ pc = "done"
    /\ written
    /\ cfg.extract_content
    /\ PersistedName \in DOMAIN disk
    /\ StreamName \in DOMAIN disk

\* C11: the record stream holds exactly one record for each unit of the tree
\* with non-empty content and none for a unit whose content is empty or
\* absent, in traversal order (paths, then modules, then units), each record
\* carrying the titles of its own path and module.
C11_OneRecordPerContentfulUnit ==
    StreamWritten =>
        LET tree == disk[PersistedName].value
            stream == disk[StreamName].value
            P == ContentfulPositions(tree)
        IN  /\ Len(stream) = Cardinality(P)
            /\ \A pos \in P :
                  LET record == stream[RankOf(P, pos)]
                      path == tree.learning_paths[pos[1]]
                      module == path.modules[pos[2]]
                      unit == module.units[pos[3]]
                  IN  /\ record.course_title = tree.title
                      /\ record.learning_path = path.title
                      /\ record.module_title = module.title
                      /\ record.unit_title = unit.title
                      /\ record.unit_url = unit.url
                      /\ record.content = unit.content

\* a stream of two records of different modules has been written from a tree
\* that also holds a unit with empty content and a unit with no content key
C11_Witness ==
    /\ StreamWritten
    /\ LET tree == disk[PersistedName].value
           stream == disk[StreamName].value
       IN  /\ Len(stream) >= 2
           /\ stream[1].module_title # stream[2].module_title
           /\ \E pos \in UnitPositions(tree) :
                 /\ "content" \in DOMAIN UnitAt(tree, pos)
                 /\ UnitAt(tree, pos).content = ""
           /\ \E pos \in UnitPositions(tree) :
                 "content" \notin DOMAIN UnitAt(tree, pos)

\* how many of n discovered entries a limit lets the crawl process
InLimit(limit, n) == Len(ApplyLimit(limit, [x \in 1..n |-> x]))

\* the fetch that follows position n of the log, 0 when there is none
NextFetch(n) ==
    LET later == {m \in Fetches : m > n}
    IN  IF later = {} THEN 0 ELSE Min(later)

\* the crawl goes on after the failed fetch at position n of the log: the
\* next fetch is that of url, or the loops are on their way to it; with no
\* url left to visit the crawl runs to its end without a further fetch
GoesOnWith(n, url) ==
    IF NextFetch(n) # 0 THEN url # "" /\ log[NextFetch(n)].url = url
    ELSE /\ pc # "except"
         /\ exc = ""
         /\ url # "" => pc \in {"path_loop", "module_loop", "unit_loop"}

\* the sibling the crawl turns to after path i, "" after the last one
AfterPath(i) ==
    IF i < InLimit(cfg.max_paths, NumPaths) THEN SitePathUrl(i + 1) ELSE ""

\* the page the crawl turns to after module j of path i
AfterModule(i, j) ==
    IF j < InLimit(cfg.max_modules_per_path, ModulesOn(i))
    THEN SiteModuleUrl(i, j + 1)
    ELSE AfterPath(i)

\* the page the crawl turns to after unit k of module j of path i
AfterUnit(i, j, k) ==
    IF k < InLimit(cfg.max_units_per_module, UnitsOn(i, j))
    THEN SiteUnitUrl(i, j, k + 1)
    ELSE AfterModule(i, j)

\* the fetch at position n of the log failed, and was of url
FailedFetchOf(n, url) == log[n].op = "fetch" /\ log[n].url = url /\ ~log[n].ok

\* C12: a failed fetch of a learning-path page does not abort the crawl:
\* nothing under that path is fetched and the crawl turns to the next sibling
\* path; a failed fetch of a unit page does not abort it either: that unit is
\* left without content and the crawl turns to the next unit, or else to the
\* next module, or else to the next path.
C12_PathAndUnitFailureContained ==
    \A n \in 1..Len(log) :
        /\ \A i \in 1..NumPaths :
              FailedFetchOf(n, SitePathUrl(i)) =>
                  /\ GoesOnWith(n, AfterPath(i))
                  /\ \A j \in 1..ModulesOn(i) :
                        /\ SiteModuleUrl(i, j) \notin FetchedUrls
                        /\ \A k \in 1..UnitsOn(i, j) :
                              SiteUnitUrl(i, j, k) \notin FetchedUrls
        /\ \A i \in 1..NumPaths : \A j \in 1..ModulesOn(i) : \A k \in 1..UnitsOn(i, j) :
              FailedFetchOf(n, SiteUnitUrl(i, j, k)) =>
                  /\ GoesOnWith(n, AfterUnit(i, j, k))
                  /\ "content" \notin DOMAIN course_data.learning_paths[i].modules[j].units[k]

\* the fetch of the first path failed and scrape_course has returned a tree
\* in which the second path was fetched and holds a unit with its content
C12_Witness ==
    /\ pc = "returned"
    /\ NumPaths >= 2
    /\ FetchFailed(SitePathUrl(1))
    /\ FetchSucceeded(SitePathUrl(NumPaths))
    /\ \E pos \in UnitPositions(returned) :
          pos[1] = NumPaths /\ "content" \in DOMAIN UnitAt(returned, pos)

\* the fetch of the first unit of a module failed and scrape_course has
\* returned a tree in which the next unit of that module has its content
UnitFailureSeen ==
    /\ pc = "returned"
    /\ FetchFailed(SiteUnitUrl(1, 1, 1))
    /\ FetchSucceeded(SiteUnitUrl(1, 1, 2))
    /\ "content" \notin DOMAIN returned.learning_paths[1].modules[1].units[1]
    /\ returned.learning_paths[1].modules[1].units[2].content # ""

----------------------------------------------------------------------------
(* A run that finds a malformed persisted tree *)

\* a file that json.load cannot parse
Unparseable == [valid |-> FALSE, value |-> <<>>]

\* what the persisted tree file of the course holds when it is malformed:
\* text that is no JSON, the JSON document {}, a JSON object that is no tree
MalformedFiles ==
    {Unparseable, JsonFile(<<>>), JsonFile([title |-> H1Title(CoursePage)])}

\* main is about to be started for the last time, and the persisted tree
\* file of the course has been damaged since it was written
InitCorrupt ==
    /\ args = <<>>
    /\ ret = <<>>
    /\ called = FALSE
    /\ pc = "idle"
    /\ run = MaxRuns - 1
    /\ cfg = <<>>
    /\ course_data = <<>>
    /\ existing_data = "None"
    /\ path_idx = 0
    /\ module_idx = 0
    /\ unit_idx = 0
    /\ returned = <<>>
    /\ exc = ""
    /\ \E file \in MalformedFiles : disk = [name \in {PersistedName} |-> file]
    /\ written = FALSE
    /\ log = <<>>
    /\ failures = 0
    /\ clock = 0
    /\ QuizIdle

SpecCorrupt == InitCorrupt /\ [][Next]_vars

\* a persisted record that is unparseable, or is no tree with learning_paths
Malformed(file) == ~file.valid \/ "learning_paths" \notin DOMAIN file.value

\* scrape_course is past load_existing_data in a run with resume on that
\* found the persisted record of the course malformed
ResumedOverMalformed ==
    /\ pc \in {"parse_course", "path_loop", "module_loop", "unit_loop", "returned", "except"}
    /\ cfg.resume
    /\ FetchSucceeded(course_url)
    /\ PersistedName \in DOMAIN disk
    /\ Malformed(disk[PersistedName])

\* C13: a malformed persisted record (unparseable, or parseable but no tree
\* with learning_paths) is treated as absent: the run goes on as a fresh
\* crawl with no prior tree, and no exception is raised unless a fetch failed.
C13_MalformedTreatedAsAbsent ==
    ResumedOverMalformed =>
        /\ existing_data = "None"
        /\ exc # "" => \E i \in Fetches : ~log[i].ok

----------------------------------------------------------------------------
(* A run with limits that are no positive integers *)

\* the values of --max-paths, --max-modules, --max-units: not given, 0, -1
\* (argparse's type=int accepts them all)
AnyLimitValues == {<<>>, <<0>>, <<-1>>}

AnyLimitConfigs ==
    [max_paths : AnyLimitValues,
     max_modules_per_path : AnyLimitValues,
     max_units_per_module : AnyLimitValues,
     extract_content : BOOLEAN,
     resume : BOOLEAN]

MainStartAnyLimits == Start(AnyLimitConfigs)

\* main is about to be started for the last time, with no file on disk
InitLimits ==
    /\ args = <<>>
    /\ ret = <<>>
    /\ called = FALSE
    /\ pc = "idle"
    /\ run = MaxRuns - 1
    /\ cfg = <<>>
    /\ course_data = <<>>
    /\ existing_data = "None"
    /\ path_idx = 0
    /\ module_idx = 0
    /\ unit_idx = 0
    /\ returned = <<>>
    /\ exc = ""
    /\ disk = <<>>
    /\ written = FALSE
    /\ log = <<>>
    /\ failures = 0
    /\ clock = 0
    /\ QuizIdle

NextLimits ==
    \/ MainStartAnyLimits
    \/ LoadExistingData
    \/ ParseCoursePage
    \/ ProcessPath
    \/ ReturnCourseData
    \/ ProcessModule
    \/ EndModules
    \/ ProcessUnit
    \/ EndUnits
    \/ MainWrite
    \/ MainExcept

SpecLimits == InitLimits /\ [][NextLimits]_vars

\* a limit was given and is no positive integer
NotPositive(limit) == limit # <<>> /\ limit[1] <= 0

\* scrape_course has returned a tree after a run in which no fetch failed
ReturnedUnfailed ==
    /\ pc = "returned"
    /\ returned # <<>>
    /\ \A i \in Fetches : log[i].ok

\* C14: a limit that is zero or negative never cuts the traversal: the crawl
\* visits every discovered path, every module of a visited path, every unit
\* of a visited module, as with no limit.
C14_InvalidLimitsUnlimited ==
    ReturnedUnfailed =>
        /\ NotPositive(cfg.max_paths) =>
              \A i \in 1..NumPaths : SitePathUrl(i) \in FetchedUrls
        /\ NotPositive(cfg.max_modules_per_path) =>
              \A i \in 1..NumPaths : SitePathUrl(i) \in FetchedUrls =>
                  \A j \in 1..ModulesOn(i) : SiteModuleUrl(i, j) \in FetchedUrls
        /\ (NotPositive(cfg.max_units_per_module) /\ cfg.extract_content) =>
              \A i \in 1..NumPaths : \A j \in 1..ModulesOn(i) :
                  SiteModuleUrl(i, j) \in FetchedUrls =>
                      \A k \in 1..UnitsOn(i, j) : SiteUnitUrl(i, j, k) \in FetchedUrls

----------------------------------------------------------------------------
(* What main leaves on disk *)

\* the persisted tree record of the course in a state of the disk, <<>> when
\* there is none
PersistedRecord(files) ==
    IF PersistedName \in DOMAIN files THEN files[PersistedName] ELSE <<>>

\* the crawl of the current run has yielded an empty tree: no learning paths
\* were found, or the fetch of the course page failed
EmptyCrawl ==
    \/ pc = "returned" /\ returned = <<>>
    \/ pc = "except" /\ CourseFetchFailed

CourseFailureOverPriorTree ==
    /\ pc = "done"
    /\ ~written
    /\ CourseFetchFailed
    /\ PersistedName \in DOMAIN disk

\* scrape_course is past load_existing_data in a resumed run: existing_data
\* is bound to the tree loaded from the persisted record
Resumed ==
    /\ pc \in {"path_loop", "module_loop", "unit_loop", "returned"}
    /\ existing_data = "course_data"
    /\ PersistedName \in DOMAIN disk

\* the prior tree, the object existing_data is bound to
PriorTree == course_data

\* C16: during a resumed run the prior tree is never written to: at every
\* point between the load and the end of scrape_course, and so at every call
\* of get_existing_unit_content, it is the tree that was loaded.
C16_PriorTreeReadOnly ==
    Resumed => PriorTree = disk[PersistedName].value

\* C17: in every run, between any two consecutive fetches (of whatever page,
\* failed or not) at least one politeness pause is executed.
C17_PauseBetweenFetches ==
    \A n \in 1..(Len(log) - 1) :
        ~(log[n].op = "fetch" /\ log[n + 1].op = "fetch")

\* the place in the course of the page at url: <<0, 0, 0>> for the course
\* page, <<i, 0, 0>> for path i, <<i, j, 0>> for its module j, <<i, j, k>>
\* for that module's unit k
PlaceOf(url) ==
    IF url = course_url THEN <<0, 0, 0>>
    ELSE CHOOSE q \in (1..NumPaths) \X (0..NumModules) \X (0..NumUnits) :
            \/ q[2] = 0 /\ q[3] = 0 /\ SitePathUrl(q[1]) = url
            \/ q[2] > 0 /\ q[3] = 0 /\ q[2] <= ModulesOn(q[1])
                  /\ SiteModuleUrl(q[1], q[2]) = url
            \/ q[2] > 0 /\ q[3] > 0 /\ q[2] <= ModulesOn(q[1])
                  /\ q[3] <= UnitsOn(q[1], q[2]) /\ SiteUnitUrl(q[1], q[2], q[3]) = url

\* the fetches of the run were made in depth-first order
DepthFirst ==
    \A a \in Fetches : \A b \in Fetches :
        (a < b /\ log[b].url # course_url) => Before(PlaceOf(log[a].url), PlaceOf(log[b].url))

\* every path, module and unit within the limits and under no skipped
\* subtree has been visited
AllVisited ==
    \A i \in 1..InLimit(cfg.max_paths, NumPaths) :
        /\ SitePathUrl(i) \in FetchedUrls
        /\ FetchSucceeded(SitePathUrl(i)) =>
              \A j \in 1..InLimit(cfg.max_modules_per_path, ModulesOn(i)) :
                  /\ SiteModuleUrl(i, j) \in FetchedUrls
                  /\ (FetchSucceeded(SiteModuleUrl(i, j)) /\ cfg.extract_content) =>
                        \A k \in 1..InLimit(cfg.max_units_per_module, UnitsOn(i, j)) :
                            \/ SiteUnitUrl(i, j, k) \in FetchedUrls
                            \/ Get(course_data.learning_paths[i].modules[j].units[k],
                                   "content", "") # ""

\* scrape_course has ended, by a return or by an exception, after a crawl
\* over a course page that was fetched and listed its learning paths
CrawlEnded ==
    /\ pc \in {"returned", "except"}
    /\ "learning_paths" \in DOMAIN course_data
    /\ course_data.learning_paths # <<>>

\* C18: when scrape_course ends, whatever fetches failed below the course
\* rank, every path, module and unit within the limits and under no skipped
\* subtree has been visited, in depth-first order.
C18_CrawlVisitsAll ==
    CrawlEnded => (AllVisited /\ DepthFirst)

----------------------------------------------------------------------------
(* quiz.py: run_quiz, save_progress, load_progress, clear_progress.  A run  *)
(* of run_quiz may be ended by the user at any prompt; the progress file    *)
(* stays behind and the next run offers to resume from it.                  *)

\* exam_questions.jsonl, as load_questions reads it
QuestionBank ==
    << [question |-> "Q1", correct_answer |-> "A", learning_path |-> "Compute"],
       [question |-> "Q2", correct_answer |-> "B", learning_path |-> "Compute"],
       [question |-> "Q3", correct_answer |-> "A", learning_path |-> "Storage"] >>

\* the answers the user types, of A, B, C, D
AnswerChoices == {"A", "B"}

\* seed = random.randint(0, 999999), cut to 0..MaxSeed
MaxSeed == 3

\* the generator behind random.seed / random.shuffle, a function of the seed
\* alone: a linear congruential generator stands for the library's own
Modulus == 97
Multiplier == 5
Increment == 3

\* the n-th number the generator yields after random.seed(seed)
RECURSIVE Generator(_, _)
Generator(seed, n) ==
    IF n = 0 THEN seed % Modulus
    ELSE (Multiplier * Generator(seed, n - 1) + Increment) % Modulus

\* the n-th call of randbelow(bound) after random.seed(seed)
randbelow(seed, n, bound) == Generator(seed, n) % bound

\* random.shuffle(x): for i in reversed(range(1, len(x))):
\*     j = randbelow(i + 1); x[i], x[j] = x[j], x[i]
RECURSIVE ShuffleFrom(_, _, _)
ShuffleFrom(x, seed, i) ==
    IF i < 1 THEN x
    ELSE LET j == randbelow(seed, Len(x) - i, i + 1)
         IN  ShuffleFrom([x EXCEPT ![i + 1] = x[j + 1], ![j + 1] = x[i + 1]], seed, i - 1)

\* random.seed(seed); random.shuffle(x)
shuffle(x, seed) == ShuffleFrom(x, seed, Len(x) - 1)

\* [q for q in questions if q['learning_path'] in selected_paths]
RECURSIVE FilterByPaths(_, _)
FilterByPaths(questions, selected_paths) ==
    IF questions = <<>> THEN <<>>
    ELSE LET q == questions[Len(questions)]
             rest == FilterByPaths(SubSeq(questions, 1, Len(questions) - 1), selected_paths)
         IN  IF q.learning_path \in selected_paths THEN Append(rest, q) ELSE rest

\* the learning paths of the bank, and the selections the user may make
\* (no filter is the selection of them all)
learning_paths == {QuestionBank[i].learning_path : i \in 1..Len(QuestionBank)}

Selections == (SUBSET learning_paths) \ {{}}

\* lines 122-126: seed, shuffle, keep the first total questions
filtered_questions(questions, seed, total) == SliceTo(shuffle(questions, seed), total)

\* save_progress; the timestamp it adds is only shown to the user
save_progress(seed, current_index, score, answers, total, questions) ==
    [seed |-> seed,
     current_index |-> current_index,
     score |-> score,
     answers |-> answers,
     total |-> total,
     filtered_questions |-> questions]

\* the local variables of run_quiz at the top of its "for" loop
AtLoop(seed, current_index, score, answers, total, questions, resume) ==
    [pc |-> "asking",
     seed |-> seed,
     current_index |-> current_index,
     score |-> score,
     answers |-> answers,
     total |-> total,
     questions |-> questions,
     resume |-> resume]

\* lines 69-120 and 122-126: a new quiz over the selected learning paths
NewQuiz ==
    \E selected_paths \in Selections :
        LET questions == FilterByPaths(QuestionBank, selected_paths)
        IN  \E total \in 1..Len(questions) : \E seed \in 0..MaxSeed :
                /\ quiz' = AtLoop(seed, 0, 0, <<>>, total,
                                  filtered_questions(questions, seed, total), FALSE)
                /\ asked' = <<>>

\* lines 58-65 and 122-126: the quiz of the progress file is resumed
ResumeQuiz ==
    LET progress == progress_file
    IN  /\ quiz' = AtLoop(progress.seed, progress.current_index, progress.score,
                          progress.answers, progress.total,
                          filtered_questions(progress.filtered_questions,
                                             progress.seed, progress.total),
                          TRUE)
        /\ UNCHANGED <<progress_file, asked>>

\* run_quiz from its start to the top of its "for" loop
StartQuiz ==
    /\ quiz.pc \in {"idle", "finished"}
    /\ IF progress_file # <<>>
       THEN \E choice \in {"Y", "N"} :
               IF choice = "Y"
               THEN ResumeQuiz
               ELSE NewQuiz /\ progress_file' = <<>>
       ELSE NewQuiz /\ UNCHANGED progress_file
    /\ UNCHANGED <<pureVars, crawlVars>>

\* lines 133-166: one turn of the loop: the question is shown, the answer
\* read, marked and recorded, the progress saved
AnswerQuestion ==
    /\ quiz.pc = "asking"
    /\ quiz.current_index < quiz.total
    /\ \E answer \in AnswerChoices :
        LET i == quiz.current_index
            q == quiz.questions[i + 1]
            score == IF answer = q.correct_answer THEN quiz.score + 1 ELSE quiz.score
            answers == Append(quiz.answers, [user_answer |-> answer,
                                             correct_answer |-> q.correct_answer])
        IN  /\ quiz' = [quiz EXCEPT !.current_index = i + 1,
                                    !.score = score,
                                    !.answers = answers]
            /\ progress_file' = save_progress(quiz.seed, i + 1, score, answers,
                                              quiz.total, quiz.questions)
            /\ asked' = Append(asked, q.question)
    /\ UNCHANGED <<pureVars, crawlVars>>

\* the user ends the program at a prompt
Interrupt ==
    /\ quiz.pc = "asking"
    /\ quiz' = [pc |-> "idle"]
    /\ UNCHANGED <<progress_file, asked, pureVars, crawlVars>>

\* the questions the final review lists: those whose recorded answer is wrong
wrong_answers(questions, answers) ==
    {i \in 1..Len(questions) :
        i <= Len(answers) /\ answers[i].user_answer # answers[i].correct_answer}

\* lines 180-235: the loop is over, the results and the review are printed
FinishQuiz ==
    /\ quiz.pc = "asking"
    /\ quiz.current_index >= quiz.total
    /\ quiz' = [quiz EXCEPT !.pc = "finished"]
    /\ UNCHANGED <<progress_file, asked, pureVars, crawlVars>>

InitQuiz ==
    /\ args = <<>>
    /\ ret = <<>>
    /\ called = FALSE
    /\ CrawlIdle
    /\ QuizIdle

NextQuiz ==
    \/ StartQuiz
    \/ AnswerQuestion
    \/ Interrupt
    \/ FinishQuiz

SpecQuiz == InitQuiz /\ [][NextQuiz]_vars

\* run_quiz has resumed from the progress file and nothing has been saved
\* since: the file still holds what the earlier session saved
JustResumed ==
    /\ quiz.pc = "asking"
    /\ quiz.resume
    /\ quiz.current_index = progress_file.current_index

\* C19: a resumed run_quiz uses the question sequence of the session that
\* saved the progress, in the same order: so no question that was answered
\* is shown again, and in the final review answers[i] is the answer that was
\* given to questions[i].
C19_ResumeKeepsSequence ==
    /\ JustResumed => quiz.questions = progress_file.filtered_questions
    /\ \A a \in 1..Len(asked) : \A b \in 1..Len(asked) :
          a # b => asked[a] # asked[b]
    /\ quiz.pc = "finished" =>
          \A i \in 1..Len(quiz.answers) :
              quiz.answers[i].correct_answer = quiz.questions[i].correct_answer

====
